---- MODULE Spec2Model ----
(***************************************************************************)
(* Model of the exactly/protocol simulator (src/sim): the PriceChanger     *)
(* agents that replay a generated price path into a mock price feed, the   *)
(* Liquidator agent that scans the watched accounts and liquidates the     *)
(* insolvent ones, and the loop of main that sequences them.               *)
(*                                                                         *)
(* Scaling.  U256 is modelled with U256_BITS bits instead of 256, the WAD  *)
(* with WAD_DECIMALS decimals instead of 18, and an f64 price x by the     *)
(* integer x * FLOAT_DENOM (prices are multiples of 1/FLOAT_DENOM).        *)
(***************************************************************************)
EXTENDS Integers, Sequences, FiniteSets, TLC

\* ------------------------------------------------------------- bounds ----
NumMarkets == 2      \* tracked markets (finance.markets.keys())
NumAccounts == 2     \* L, the length of Liquidator::accounts
MaxSteps == 2        \* largest n_steps a PriceChanger is built with
MaxSnapshot == 3     \* longest Vec<MarketAccount> the previewer returns
U256_BITS == 8       \* width of the unsigned word standing for U256
WAD_DECIMALS == 1    \* decimals of the fixed-point unit standing for 1e18
FLOAT_DENOM == 4     \* f64 values are multiples of 1/FLOAT_DENOM
F64_MANTISSA == 7    \* significant bits of the float standing for f64 (53)

\* ---------------------------------------------------------- constants ----
BLOCK_TIME == 12

RECURSIVE Pow(_, _)
Pow(b, n) == IF n = 0 THEN 1 ELSE b * Pow(b, n - 1)

U256_MAX == Pow(2, U256_BITS) - 1
WAD == Pow(10, WAD_DECIMALS)

Markets == 1..NumMarkets
Seeds == {1, 2}

\* accounts: [Address; L]; the address of the i-th watched account
accounts == [i \in 1..NumAccounts |-> i]

\* --------------------------------------------------------- arithmetic ----
\* `as u128` of an f64: truncation toward zero, negative values saturate to 0.
\* float_to_wad(x) = U256::from((x * 1e18) as u128); I256::from_raw keeps it.
float_to_wad(x) == IF x <= 0 THEN 0 ELSE (x * WAD) \div FLOAT_DENOM

\* initial_price: 1.0 (the `_ => 1.0` arm), also the mean of the process
initial_price == FLOAT_DENOM

\* The standard-normal draw number i of the generator seeded with `seed`,
\* already multiplied by std_dev * sqrt(dt).
Draw(seed, i) == IF (seed + i) % 2 = 0 THEN 3 ELSE 0 - 6

\* Euler-Maruyama path of the Ornstein-Uhlenbeck process, theta * dt = 1/2:
\* X[0] = initial_price, X[i] = X[i-1] + theta*(mean - X[i-1])*dt + Draw.
RECURSIVE euler_maruyama(_, _, _)
euler_maruyama(x0, n, seed) ==
    IF n = 0 THEN (0 :> x0)
    ELSE LET prev == euler_maruyama(x0, n - 1, seed)
             x == prev[n - 1]
         IN  prev @@ (n :> (x + ((x0 - x) \div 2) + Draw(seed, n)))

\* seed: Option<u64>
None == [some |-> FALSE, value |-> 0]
Some(v) == [some |-> TRUE, value |-> v]

\* match seed { Some(seed) => seedable_euler_maruyama(.., seed),
\*              None => euler_maruyama(..) }: the generator is seeded with the
\* seed of the parameters when there is one, from the entropy source otherwise.
new_trajectory_Unseeded(p, entropy) ==
    euler_maruyama(initial_price, p.n_steps, entropy)

new_trajectory_OnePath(p, entropy) ==
    euler_maruyama(initial_price, 1, IF p.seed.some THEN p.seed.value ELSE entropy)

new_trajectory(p, entropy) ==
    euler_maruyama(initial_price, p.n_steps, IF p.seed.some THEN p.seed.value ELSE entropy)

\* trajectory.paths[0].len()
PathLen(path) == Cardinality(DOMAIN path)

\* ------------------------------------------------- MarketAccount data ----
FixedPosition == [principal |-> 2, fee |-> 1]

EntryShapes ==
    { [floating_borrow_assets |-> 5, fixed_borrow_positions |-> <<>>,
       floating_deposit_assets |-> 10, is_collateral |-> FALSE,
       usd_price |-> 1, decimals |-> 0],
      [floating_borrow_assets |-> 8, fixed_borrow_positions |-> <<>>,
       floating_deposit_assets |-> 3, is_collateral |-> TRUE,
       usd_price |-> 1, decimals |-> 0],
      [floating_borrow_assets |-> 5, fixed_borrow_positions |-> <<FixedPosition>>,
       floating_deposit_assets |-> 3, is_collateral |-> TRUE,
       usd_price |-> 1, decimals |-> 0],
      [floating_borrow_assets |-> 0, fixed_borrow_positions |-> <<>>,
       floating_deposit_assets |-> 0, is_collateral |-> FALSE,
       usd_price |-> 1, decimals |-> 0],
      [floating_borrow_assets |-> 8, fixed_borrow_positions |-> <<FixedPosition>>,
       floating_deposit_assets |-> 7, is_collateral |-> TRUE,
       usd_price |-> 15, decimals |-> 1],
      [floating_borrow_assets |-> 20, fixed_borrow_positions |-> <<>>,
       floating_deposit_assets |-> 2, is_collateral |-> TRUE,
       usd_price |-> 15, decimals |-> 0],
      [floating_borrow_assets |-> 0, fixed_borrow_positions |-> <<>>,
       floating_deposit_assets |-> 20, is_collateral |-> TRUE,
       usd_price |-> 15, decimals |-> 0],
      [floating_borrow_assets |-> 3, fixed_borrow_positions |-> <<FixedPosition>>,
       floating_deposit_assets |-> 12, is_collateral |-> FALSE,
       usd_price |-> 15, decimals |-> 1] }

\* A snapshot is a Vec<MarketAccount>; entry i is the account's position in
\* the i-th market of the auditor, whose address is i.
WithMarkets(f) == [i \in DOMAIN f |-> [market |-> i] @@ f[i]]

Snapshots == UNION { { WithMarkets(f) : f \in [1..n -> EntryShapes] } : n \in 0..MaxSnapshot }

\* The snapshots met by the full run of the loop (a sample of Snapshots).
LoopSnapshots == { s \in Snapshots : Len(s) <= 2 /\ \A i \in DOMAIN s : s[i].decimals = 0 /\ s[i].fixed_borrow_positions = <<>> }

\* fixed_borrow_positions.iter().fold(U256::zero(), |debt, p| debt + p.principal + p.fee)
RECURSIVE FixedDebt(_)
FixedDebt(positions) ==
    IF positions = <<>> THEN 0
    ELSE FixedDebt(Tail(positions)) + Head(positions).principal + Head(positions).fee

\* (floating_borrow_assets + fixed debt) * usd_price / exp10(decimals)
DebtValue(e) ==
    ((e.floating_borrow_assets + FixedDebt(e.fixed_borrow_positions)) * e.usd_price)
        \div Pow(10, e.decimals)

\* floating_deposit_assets * usd_price / exp10(decimals)
DepositValue(e) == (e.floating_deposit_assets * e.usd_price) \div Pow(10, e.decimals)

\* U256 `+`, `*` and exp10 panic on overflow.
DebtOverflows(e) ==
    \/ Pow(10, e.decimals) > U256_MAX
    \/ (e.floating_borrow_assets + FixedDebt(e.fixed_borrow_positions)) * e.usd_price > U256_MAX

DepositOverflows(e) ==
    \/ Pow(10, e.decimals) > U256_MAX
    \/ e.floating_deposit_assets * e.usd_price > U256_MAX

\* ------------------------------------------------------- health factor ----
\* The spacing of the floats around x: f64 keeps F64_MANTISSA significant bits.
RECURSIVE Ulp(_)
Ulp(x) == IF x < Pow(2, F64_MANTISSA) THEN 1 ELSE 2 * Ulp(x \div 2)

\* `as f64` of an unsigned integer: the nearest float, ties to even.
to_f64(x) ==
    LET q == Ulp(x)
        lo == (x \div q) * q
        r == x - lo
    IN  IF 2 * r < q THEN lo
        ELSE IF 2 * r > q THEN lo + q
        ELSE IF (lo \div q) % 2 = 0 THEN lo ELSE lo + q

\* wad_to_float(x): x as f64 / 1e18, a float kept as the fraction num / den
\* (the two divisions are taken as exact).
wad_to_float(x) == [num |-> to_f64(x), den |-> WAD]
FloatDiv(a, b) == [num |-> a.num * b.den, den |-> a.den * b.num]

\* The health factor logged for an account:
\* if debt == 0 { f64::INFINITY } else { wad_to_float(collateral) / wad_to_float(debt) }
Infinity == [inf |-> TRUE, num |-> 1, den |-> 0]
NoHealth == [inf |-> FALSE, num |-> 0, den |-> 0]

HealthFactor_ZeroCollateral(c, d) ==
    IF c = 0 THEN Infinity
    ELSE [inf |-> FALSE] @@ FloatDiv(wad_to_float(c), wad_to_float(d))

HealthFactor_Inverted(c, d) ==
    IF d = 0 THEN Infinity
    ELSE [inf |-> FALSE] @@ FloatDiv(wad_to_float(d), wad_to_float(c))

HealthFactor(c, d) ==
    IF d = 0 THEN Infinity
    ELSE [inf |-> FALSE] @@ FloatDiv(wad_to_float(c), wad_to_float(d))

\* ----------------------------------------------------- market selection ----
\* The closure of the repay-market reduce: b replaces a on strictly greater debt.
RepayClosure_LastMax(a, b) == IF DebtValue(b) >= DebtValue(a) THEN b ELSE a

RepayClosure(a, b) == IF DebtValue(b) > DebtValue(a) THEN b ELSE a

\* The closure of the seize-market reduce: b replaces a when b is collateral
\* and its deposit is worth strictly more than a's.
SeizeClosure_NoFlag(a, b) ==
    IF DepositValue(b) > DepositValue(a) THEN b ELSE a

SeizeClosure(a, b) ==
    IF b.is_collateral /\ DepositValue(b) > DepositValue(a) THEN b ELSE a

\* Does evaluating the seize closure on (a, b) overflow?  `&&` short-circuits:
\* nothing is computed when b is not collateral.
SeizeClosureOverflows(a, b) ==
    b.is_collateral /\ (DepositOverflows(b) \/ DepositOverflows(a))

\* exactly.iter().reduce(closure): None on an empty Vec, the only entry of a
\* one-entry Vec (the closure is not called), else the left fold seeded with
\* the first entry.
RECURSIVE ReduceRepay(_, _, _)
ReduceRepay(s, i, a) ==
    IF i > Len(s) THEN a ELSE ReduceRepay(s, i + 1, RepayClosure(a, s[i]))

RECURSIVE ReduceSeize(_, _, _)
ReduceSeize(s, i, a) ==
    IF i > Len(s) THEN a ELSE ReduceSeize(s, i + 1, SeizeClosure(a, s[i]))

RECURSIVE ReduceSeizeOverflows(_, _, _)
ReduceSeizeOverflows(s, i, a) ==
    /\ i <= Len(s)
    /\ \/ SeizeClosureOverflows(a, s[i])
       \/ ReduceSeizeOverflows(s, i + 1, SeizeClosure(a, s[i]))

\* Every entry's debt is valued by the repay closure once the Vec has two entries.
RepayOverflows(s) == Len(s) >= 2 /\ \E i \in DOMAIN s : DebtOverflows(s[i])
SeizeOverflows(s) == s # <<>> /\ ReduceSeizeOverflows(s, 2, s[1])

repay_market_of(s) == ReduceRepay(s, 2, s[1]).market
seize_market_of(s) == ReduceSeize(s, 2, s[1]).market

\* ---------------------------------------------------------------- state ----
VARIABLES
    params,        \* the PriceProcessParameters each market is deployed with
    trajectory,    \* PriceChanger::trajectory.paths[0] of each market
    index,         \* PriceChanger::index of each market
    feed,          \* the price each MockPriceFeed holds
    pc,            \* where main is: loop, price, liquidity, positions, liquidate, stop, Stopped
    tick,          \* the value of the loop's range iterator
    mi,            \* position of the inner loop over markets
    ai,            \* position of check_liquidations' loop over accounts
    collateral,    \* check_liquidations' local
    debt,          \* check_liquidations' local
    health,        \* the health factor check_liquidations has logged for the account
    exactly,       \* check_liquidations' local: the snapshot read
    repay_market,  \* check_liquidations' local
    seize_market,  \* check_liquidations' local
    ledger_op,     \* the last operation issued to the ledger, with its outcome
    error,         \* why the run stopped, "none" while it has not failed
    block_number,  \* blocks the environment has mined since the loop began
    timestamp,     \* seconds the environment's clock has moved since then
    in_flight,     \* ledger operations submitted and not yet completed
    history        \* what the scans of this tick and of the previous one did

vars == <<params, trajectory, index, feed, pc, tick, mi, ai, collateral, debt, health,
          exactly, repay_market, seize_market, ledger_op, error, block_number,
          timestamp, in_flight, history>>

locals == <<collateral, debt, health, exactly, repay_market, seize_market>>
observers == <<in_flight, history>>
clock == <<block_number, timestamp>>
changers == <<index, feed>>

NoOp == [op |-> "none", market |-> 0, account |-> 0, amount |-> 0, seize |-> 0,
         ret |-> <<0, 0>>, ok |-> TRUE]

\* (collateral, debt) pairs the auditor's account_liquidity returns
LiquidityValues ==
    { <<100, 200>>, <<200, 201>>, <<200, 200>>, <<200, 100>>, <<100, 0>>, <<0, 0>> }

\* Nothing queried and nothing liquidated yet.
NoHistory ==
    [queried |-> [a \in 1..NumAccounts |-> 0],
     submitted |-> [a \in 1..NumAccounts |-> 0],
     insolvent |-> {},
     previous |-> {}]

\* PriceChanger::new for every market (deploy_market), index: 1; the feed is
\* deployed holding float_to_wad(initial_price).
InitWith_CursorZero(steps, seeds) ==
    /\ params = [m \in Markets |-> [n_steps |-> steps[m], seed |-> None]]
    /\ trajectory = [m \in Markets |-> new_trajectory(params[m], seeds[m])]
    /\ index = [m \in Markets |-> 0]
    /\ feed = [m \in Markets |-> float_to_wad(initial_price)]
    /\ pc = "loop"
    /\ tick = 0
    /\ mi = 0
    /\ ai = 0
    /\ collateral = 0
    /\ debt = 0
    /\ health = NoHealth
    /\ exactly = <<>>
    /\ repay_market = 0
    /\ seize_market = 0
    /\ ledger_op = NoOp
    /\ error = "none"
    /\ block_number = 0
    /\ timestamp = 0
    /\ in_flight = 0
    /\ history = NoHistory

InitWith(steps, seeds) ==
    /\ params = [m \in Markets |-> [n_steps |-> steps[m], seed |-> None]]
    /\ trajectory = [m \in Markets |-> new_trajectory(params[m], seeds[m])]
    /\ index = [m \in Markets |-> 1]
    /\ feed = [m \in Markets |-> float_to_wad(initial_price)]
    /\ pc = "loop"
    /\ tick = 0
    /\ mi = 0
    /\ ai = 0
    /\ collateral = 0
    /\ debt = 0
    /\ health = NoHealth
    /\ exactly = <<>>
    /\ repay_market = 0
    /\ seize_market = 0
    /\ ledger_op = NoOp
    /\ error = "none"
    /\ block_number = 0
    /\ timestamp = 0
    /\ in_flight = 0
    /\ history = NoHistory

Init ==
    \E steps \in [Markets -> 1..MaxSteps], seeds \in [Markets -> Seeds] :
        InitWith(steps, seeds)

\* -------------------------------------------------------------- actions ----
\* BlockSettings::RandomlySampled { block_rate: 1.0, block_time: 12, seed: 1 }:
\* the environment moves the clock while it processes a transaction, when the
\* sampled number of transactions of the block is used up (newBlock); a
\* query (.call()) is no transaction.
ProcessTransaction_Back(newBlock) ==
    /\ block_number' = block_number + 1
    /\ timestamp' = IF newBlock THEN timestamp + BLOCK_TIME ELSE timestamp - BLOCK_TIME

ProcessTransaction(newBlock) ==
    IF newBlock
    THEN /\ block_number' = block_number + 1
         /\ timestamp' = timestamp + BLOCK_TIME
    ELSE UNCHANGED clock

\* A panic or an error returned through `?` ends main.
Halt_Continue(why) ==
    /\ pc' = pc
    /\ error' = why

Halt(why) ==
    /\ pc' = "Stopped"
    /\ error' = why

\* for _ in 1..markets[0].2.trajectory.paths[0].len(): the next value of the
\* range, or the end of the loop.
\* The end of the range 1..markets[0].2.trajectory.paths[0].len()
TickBound_Longest ==
    CHOOSE n \in { PathLen(trajectory[m]) : m \in Markets } :
        \A m \in Markets : PathLen(trajectory[m]) <= n

TickBound_OneMore == PathLen(trajectory[1]) + 1

TickBound == PathLen(trajectory[1])

ForNext ==
    /\ pc = "loop"
    /\ IF tick + 1 < TickBound
       THEN /\ tick' = tick + 1
            /\ mi' = 1
            /\ pc' = "price"
       ELSE /\ pc' = "stop"
            /\ UNCHANGED <<tick, mi>>
    /\ UNCHANGED <<params, trajectory, changers, ai, locals, ledger_op, error, clock>>

\* The price update_price reads and pushes.
PriceToPush_Stale(m) == float_to_wad(trajectory[m][index[m] - 1])

PriceToPush(m) == float_to_wad(trajectory[m][index[m]])

\* paths[0][self.index] is out of bounds.
Exhausted_Early(m) == index[m] + 1 >= PathLen(trajectory[m])

Exhausted(m) == index[m] >= PathLen(trajectory[m])

\* Where the inner loop over the markets goes after market m.
AfterMarket_Early(m) ==
    /\ pc' = "liquidity"
    /\ ai' = 1
    /\ UNCHANGED mi

AfterMarket_Skip(m) ==
    IF m + 1 < NumMarkets
    THEN /\ mi' = m + 2
         /\ UNCHANGED <<pc, ai>>
    ELSE /\ pc' = "liquidity"
         /\ ai' = 1
         /\ UNCHANGED mi

AfterMarket(m) ==
    IF m < NumMarkets
    THEN /\ mi' = m + 1
         /\ UNCHANGED <<pc, ai>>
    ELSE /\ pc' = "liquidity"
         /\ ai' = 1
         /\ UNCHANGED mi

\* price_changer.update_price().await? for the market the inner loop is at.
UpdatePrice ==
    /\ pc = "price"
    /\ IF Exhausted(mi)
       THEN \* paths[0][self.index] panics: index out of bounds
            /\ Halt("OutOfRange")
            /\ UNCHANGED <<changers, mi, ai, ledger_op, clock>>
       ELSE \E accepted \in BOOLEAN, newBlock \in BOOLEAN :
            /\ ledger_op' = [NoOp EXCEPT !.op = "set_price", !.market = mi,
                                         !.amount = PriceToPush(mi), !.ok = accepted]
            /\ ProcessTransaction(newBlock)
            /\ IF accepted
               THEN /\ feed' = [feed EXCEPT ![mi] = PriceToPush(mi)]
                    /\ index' = [index EXCEPT ![mi] = index[mi] + 1]
                    /\ AfterMarket(mi)
                    /\ UNCHANGED error
               ELSE /\ Halt("LedgerCallFailure")
                    /\ UNCHANGED <<changers, mi, ai>>
    /\ UNCHANGED <<params, trajectory, tick, locals>>

\* The locals of an iteration of check_liquidations go out of scope.
DropLocals ==
    /\ collateral' = 0
    /\ debt' = 0
    /\ health' = NoHealth
    /\ exactly' = <<>>
    /\ repay_market' = 0
    /\ seize_market' = 0

\* Where check_liquidations goes after account a: the next account, or its
\* Ok(()) and the loop of main.  The locals of the iteration are dropped.
AfterAccount(a) ==
    /\ IF a < NumAccounts
       THEN /\ ai' = a + 1
            /\ pc' = "liquidity"
       ELSE /\ pc' = "loop"
            /\ UNCHANGED ai
    /\ DropLocals

\* if collateral >= debt { continue; }
Solvent_Cooldown(c, d) == c >= d \/ ai \in history.previous

Solvent_Strict(c, d) == c > d

Solvent(c, d) == c >= d

\* auditor.account_liquidity(*account, ..).call().await?, the test
\* `if collateral >= debt { continue; }` and the log of the health factor.
AccountLiquidity ==
    /\ pc = "liquidity"
    /\ \E ok \in BOOLEAN, ret \in LiquidityValues :
        /\ ledger_op' = [NoOp EXCEPT !.op = "account_liquidity", !.account = accounts[ai],
                                     !.ret = IF ok THEN ret ELSE <<0, 0>>, !.ok = ok]
        /\ IF ~ok
           THEN /\ Halt("LedgerCallFailure")
                /\ UNCHANGED <<ai, locals>>
           ELSE IF Solvent(ret[1], ret[2])
           THEN /\ AfterAccount(ai)
                /\ UNCHANGED error
           ELSE /\ collateral' = ret[1]
                /\ debt' = ret[2]
                /\ health' = HealthFactor(ret[1], ret[2])
                /\ pc' = "positions"
                /\ UNCHANGED <<ai, exactly, repay_market, seize_market, error>>
    /\ UNCHANGED <<params, trajectory, changers, tick, mi, clock>>

\* previewer.exactly(*account).call().await? and the two reduces that pick the
\* repay market and the seize market; .unwrap() panics on an empty snapshot.
ReadPositions(snapshots) ==
    /\ pc = "positions"
    /\ \E ok \in BOOLEAN, s \in snapshots :
        /\ ledger_op' = [NoOp EXCEPT !.op = "exactly", !.account = accounts[ai], !.ok = ok]
        /\ IF ~ok
           THEN /\ Halt("LedgerCallFailure")
                /\ DropLocals
           ELSE IF s = <<>>
           THEN /\ Halt("UnwrapNone")
                /\ DropLocals
           ELSE IF RepayOverflows(s) \/ SeizeOverflows(s)
           THEN /\ Halt("Overflow")
                /\ DropLocals
           ELSE /\ exactly' = s
                /\ repay_market' = repay_market_of(s)
                /\ seize_market' = seize_market_of(s)
                /\ pc' = "liquidate"
                /\ UNCHANGED <<collateral, debt, health, error>>
    /\ UNCHANGED <<params, trajectory, changers, tick, mi, ai, clock>>

\* The call Market::new(repay_market, ..).liquidate(*account, U256::MAX, seize_market)
LiquidateCall_Swapped(ok) ==
    [NoOp EXCEPT !.op = "liquidate", !.market = seize_market, !.account = accounts[ai],
                 !.amount = U256_MAX, !.seize = repay_market, !.ok = ok]

LiquidateCall(ok) ==
    [NoOp EXCEPT !.op = "liquidate", !.market = repay_market, !.account = accounts[ai],
                 !.amount = U256_MAX, !.seize = seize_market, !.ok = ok]

\* .liquidate(..).send().await?.await?
Liquidate ==
    /\ pc = "liquidate"
    /\ \E ok \in BOOLEAN, newBlock \in BOOLEAN :
        /\ ledger_op' = LiquidateCall(ok)
        /\ ProcessTransaction(newBlock)
        /\ IF ok
           THEN /\ AfterAccount(ai)
                /\ UNCHANGED error
           ELSE /\ Halt("LedgerCallFailure")
                /\ DropLocals
                /\ UNCHANGED ai
    /\ UNCHANGED <<params, trajectory, changers, tick, mi>>

\* environment.stop()?; Ok(())
Stop ==
    /\ pc = "stop"
    /\ \E ok \in BOOLEAN :
        Halt(IF ok THEN "none" ELSE "EnvironmentError")
    /\ UNCHANGED <<params, trajectory, changers, tick, mi, ai, locals, ledger_op, clock>>

Next ==
    \/ ForNext /\ UNCHANGED observers
    \/ UpdatePrice /\ UNCHANGED observers
    \/ AccountLiquidity /\ UNCHANGED observers
    \/ ReadPositions(LoopSnapshots) /\ UNCHANGED observers
    \/ Liquidate /\ UNCHANGED observers
    \/ Stop /\ UNCHANGED observers

Spec == Init /\ [][Next]_vars

\* The selection of the markets on every snapshot: one configuration of the
\* price changers, every snapshot of Snapshots.
InitSelect ==
    InitWith([m \in Markets |-> 1], [m \in Markets |-> 1])

NextSelect ==
    \/ ForNext /\ UNCHANGED observers
    \/ UpdatePrice /\ UNCHANGED observers
    \/ AccountLiquidity /\ UNCHANGED observers
    \/ ReadPositions(Snapshots) /\ UNCHANGED observers
    \/ Liquidate /\ UNCHANGED observers
    \/ Stop /\ UNCHANGED observers

SpecSelect == InitSelect /\ [][NextSelect]_vars

\* ------------------------------------------------ submission and await ----
\* The state of the program proper, without the observers.
program == <<params, trajectory, index, feed, pc, tick, mi, ai, collateral, debt, health,
             exactly, repay_market, seize_market, ledger_op, error, block_number,
             timestamp>>

\* The positions of main at which the next thing it does is a ledger operation.
LedgerPcs == {"price", "liquidity", "positions", "liquidate"}

\* Every call is followed by .await?: main goes on, and submits its next
\* operation, only when the one it has submitted has completed.
Awaited_Spawned == TRUE

Awaited == in_flight = 0

\* .call() / .send(): main hands the operation of its position to the ledger.
\* update_price reads paths[0][self.index] first and submits nothing when that panics.
Submit ==
    /\ pc \in LedgerPcs
    /\ ~(pc = "price" /\ Exhausted(mi))
    /\ Awaited
    /\ in_flight' = in_flight + 1
    /\ UNCHANGED <<program, history>>

\* .await?: the submitted operation completes, with the effect A.
Complete(A) ==
    /\ in_flight > 0
    /\ A
    /\ in_flight' = in_flight - 1
    /\ UNCHANGED history

\* A step A of main that involves no ledger operation.
Local(A) ==
    /\ in_flight = 0
    /\ A
    /\ UNCHANGED observers

NextAwait ==
    \/ Submit
    \/ Local(ForNext)
    \/ Local(pc = "price" /\ Exhausted(mi) /\ UpdatePrice)
    \/ Complete(UpdatePrice)
    \/ Complete(AccountLiquidity)
    \/ Complete(ReadPositions(LoopSnapshots))
    \/ Complete(Liquidate)
    \/ Local(Stop)

SpecAwait == Init /\ [][NextAwait]_vars

\* ------------------------------------------------ the calls of a tick ----
\* The record of the calls the scan of the current tick has made: per account
\* the account_liquidity queries and the liquidate submissions, the accounts
\* the ledger reported with collateral < debt, and the accounts that were
\* submitted for liquidation in the tick before.
Record ==
    history' =
        IF pc = "loop" /\ pc' = "price"
        THEN [NoHistory EXCEPT
                !.previous = { a \in 1..NumAccounts : history.submitted[a] > 0 }]
        ELSE IF pc = "liquidity"
        THEN [history EXCEPT
                !.queried[ai] = @ + 1,
                !.insolvent = IF ledger_op'.ok /\ ledger_op'.ret[1] < ledger_op'.ret[2]
                              THEN @ \cup {ai} ELSE @]
        ELSE IF pc = "liquidate"
        THEN [history EXCEPT !.submitted[ai] = @ + 1]
        ELSE history

\* Every market with the longest trajectory, one seed.
InitHistory ==
    InitWith([m \in Markets |-> MaxSteps], [m \in Markets |-> 1])

NextHistory ==
    \/ ForNext /\ Record /\ UNCHANGED in_flight
    \/ UpdatePrice /\ Record /\ UNCHANGED in_flight
    \/ AccountLiquidity /\ Record /\ UNCHANGED in_flight
    \/ ReadPositions(LoopSnapshots) /\ Record /\ UNCHANGED in_flight
    \/ Liquidate /\ Record /\ UNCHANGED in_flight
    \/ Stop /\ Record /\ UNCHANGED in_flight

SpecHistory == InitHistory /\ [][NextHistory]_vars

\* ------------------------------------------------ the health factor ----
\* The health factor expression on every pair of values account_liquidity
\* can return: the values are drawn, then the expression is evaluated.
InitHealth ==
    /\ params = [m \in Markets |-> [n_steps |-> 1, seed |-> None]]
    /\ trajectory = [m \in Markets |-> new_trajectory(params[m], 1)]
    /\ index = [m \in Markets |-> 1]
    /\ feed = [m \in Markets |-> float_to_wad(initial_price)]
    /\ pc = "health"
    /\ tick = 0
    /\ mi = 0
    /\ ai = 1
    /\ collateral \in 0..U256_MAX
    /\ debt \in 0..U256_MAX
    /\ health = NoHealth
    /\ exactly = <<>>
    /\ repay_market = 0
    /\ seize_market = 0
    /\ ledger_op = NoOp
    /\ error = "none"
    /\ block_number = 0
    /\ timestamp = 0
    /\ in_flight = 0
    /\ history = NoHistory

EvalHealth ==
    /\ pc = "health"
    /\ health' = HealthFactor(collateral, debt)
    /\ pc' = "logged"
    /\ UNCHANGED <<params, trajectory, changers, tick, mi, ai, collateral, debt, exactly,
                   repay_market, seize_market, ledger_op, error, clock, observers>>

NextHealth == EvalHealth

SpecHealth == InitHealth /\ [][NextHealth]_vars

\* ------------------------------------------------ deployment ----
\* No PriceChanger of the market yet: no trajectory, no cursor, no feed.
NotBuilt == <<>>

Built(m) == trajectory[m] # NotBuilt

\* The state before the markets are deployed.  main gives every market the
\* same PriceProcessParameters but for the initial price.
InitNew ==
    /\ \E n \in 1..MaxSteps, seed \in {None} \cup { Some(s) : s \in Seeds } :
          params = [m \in Markets |-> [n_steps |-> n, seed |-> seed]]
    /\ trajectory = [m \in Markets |-> NotBuilt]
    /\ index = [m \in Markets |-> 0]
    /\ feed = [m \in Markets |-> 0]
    /\ pc = "deploy"
    /\ tick = 0
    /\ mi = 0
    /\ ai = 0
    /\ collateral = 0
    /\ debt = 0
    /\ health = NoHealth
    /\ exactly = <<>>
    /\ repay_market = 0
    /\ seize_market = 0
    /\ ledger_op = NoOp
    /\ error = "none"
    /\ block_number = 0
    /\ timestamp = 0
    /\ in_flight = 0
    /\ history = NoHistory

\* The end of deploy_market for market m: MockPriceFeed::deploy with the
\* initial price, enable_market, and PriceChanger::new, which generates the
\* trajectory and sets the cursor to 1.  try_join_all runs the deployments of
\* the markets in any order and main goes on when all of them are done.
DeployMarket(m) ==
    /\ pc = "deploy"
    /\ ~Built(m)
    /\ \E ok \in BOOLEAN, blocks \in 0..2, entropy \in Seeds :
        /\ block_number' = block_number + blocks
        /\ timestamp' = timestamp + blocks * BLOCK_TIME
        /\ IF ok
           THEN /\ feed' = [feed EXCEPT ![m] = float_to_wad(initial_price)]
                /\ trajectory' = [trajectory EXCEPT ![m] = new_trajectory(params[m], entropy)]
                /\ index' = [index EXCEPT ![m] = 1]
                /\ pc' = IF \A o \in Markets \ {m} : Built(o) THEN "loop" ELSE "deploy"
                /\ UNCHANGED error
           ELSE /\ Halt("LedgerCallFailure")
                /\ UNCHANGED <<trajectory, changers>>
    /\ UNCHANGED <<params, tick, mi, ai, locals, ledger_op>>

NextNew ==
    \/ (\E m \in Markets : DeployMarket(m)) /\ UNCHANGED observers
    \/ ForNext /\ UNCHANGED observers
    \/ UpdatePrice /\ UNCHANGED observers
    \/ AccountLiquidity /\ UNCHANGED observers
    \/ ReadPositions(LoopSnapshots) /\ UNCHANGED observers
    \/ Liquidate /\ UNCHANGED observers
    \/ Stop /\ UNCHANGED observers

SpecNew == InitNew /\ [][NextNew]_vars

\* ------------------------------------------------ termination ----
\* Every market with the same number of steps, as in main, one seed.
InitFair ==
    \E n \in 1..MaxSteps : InitWith([m \in Markets |-> n], [m \in Markets |-> 1])

NextFair ==
    \/ ForNext /\ UNCHANGED observers
    \/ UpdatePrice /\ UNCHANGED observers
    \/ AccountLiquidity /\ UNCHANGED observers
    \/ ReadPositions(LoopSnapshots) /\ UNCHANGED observers
    \/ Liquidate /\ UNCHANGED observers
    \/ Stop /\ UNCHANGED observers

\* main is one sequential task: when the call it awaits returns, it takes its
\* next step.
SpecFair == InitFair /\ [][NextFair]_vars /\ WF_vars(NextFair)

TypeOK ==
    /\ pc \in {"loop", "price", "liquidity", "positions", "liquidate", "stop", "Stopped"}
    /\ tick \in 0..MaxSteps
    /\ \A m \in Markets : index[m] \in 1..PathLen(trajectory[m])
    /\ error \in {"none", "OutOfRange", "LedgerCallFailure", "UnwrapNone", "Overflow",
                  "EnvironmentError"}
    /\ timestamp = BLOCK_TIME * block_number

\* --------------------------------------------------------------- claims ----
\* The positions of main inside check_liquidations.
ScanPcs == {"liquidity", "positions", "liquidate"}

\* C1: in every tick, the price update of every tracked market has completed
\* before the scan of that tick begins (every cursor has moved tick times when
\* main is inside check_liquidations), and no step made while the scan of a
\* tick is under way pushes a price or moves a cursor.
C1_PricesBeforeScan ==
    [][ /\ pc' \in ScanPcs => \A m \in Markets : index'[m] = tick' + 1
        /\ pc \in ScanPcs /\ tick' = tick =>
               /\ UNCHANGED <<index, feed>>
               /\ ledger_op'.op # "set_price" ]_vars

\* The scan of the second tick is about to begin, right after a price push.
C1_Witness ==
    /\ pc = "liquidity"
    /\ ai = 1
    /\ tick = 2
    /\ ledger_op.op = "set_price"

\* C2: whenever an account is being evaluated during tick t, the feed of every
\* tracked market holds the fixed-point value of the sample at index t of that
\* market's trajectory.
C2_ConsistentPrices ==
    pc \in ScanPcs => \A m \in Markets : feed[m] = float_to_wad(trajectory[m][tick])

\* An account is evaluated in tick 2 against two markets with different prices,
\* one of them different from the price of tick 1.
C2_Witness ==
    /\ pc = "liquidity"
    /\ tick = 2
    /\ feed[1] # feed[2]
    /\ feed[1] # float_to_wad(trajectory[1][1])

\* C3: a liquidation is submitted for an account only when the account_liquidity
\* query just made for it returned collateral < debt: the query leads to the
\* positions query exactly when it returned collateral < debt, the scan keeps
\* what it returned while it handles the account, and liquidate is issued only
\* by the step that follows the positions query.
C3_StrictlyInsolvent ==
    [][ /\ pc = "liquidity" /\ ledger_op'.ok =>
               /\ pc' = "positions" <=> ledger_op'.ret[1] < ledger_op'.ret[2]
               /\ pc' = "positions" => <<collateral', debt'>> = ledger_op'.ret
        /\ pc = "positions" /\ pc' = "liquidate" => UNCHANGED <<collateral, debt>>
        /\ pc' \in {"positions", "liquidate"} => collateral' < debt'
        /\ ledger_op'.op = "liquidate" /\ ledger_op' # ledger_op =>
               /\ pc = "liquidate"
               /\ collateral < debt ]_vars

\* The first account was found with collateral = debt and the scan went on to
\* the second account.
C3_Witness ==
    /\ ledger_op.op = "account_liquidity"
    /\ ledger_op.ret = <<200, 200>>
    /\ ledger_op.account = accounts[1]
    /\ pc = "liquidity"
    /\ ai = 2

\* The largest debt valuation of a snapshot.
MaxDebtValue(s) ==
    CHOOSE v \in { DebtValue(s[i]) : i \in DOMAIN s } :
        \A i \in DOMAIN s : DebtValue(s[i]) <= v

\* C4: the repay market chosen for a snapshot is the first entry, in snapshot
\* order, whose debt valuation equals the maximum over all entries.
C4_RepayFirstMaximum ==
    pc = "liquidate" =>
        \E i \in DOMAIN exactly :
            /\ exactly[i].market = repay_market
            /\ DebtValue(exactly[i]) = MaxDebtValue(exactly)
            /\ \A j \in 1..(i - 1) : DebtValue(exactly[j]) < MaxDebtValue(exactly)

\* The snapshot [A:5, B:8, C:8] (C's debt partly fixed) has yielded B.
C4_Witness ==
    /\ pc = "liquidate"
    /\ Len(exactly) = 3
    /\ DebtValue(exactly[1]) = 5
    /\ DebtValue(exactly[2]) = 8
    /\ DebtValue(exactly[3]) = 8
    /\ exactly[3].fixed_borrow_positions # <<>>
    /\ repay_market = 2

\* The is_collateral entries of a snapshot and their largest deposit valuation.
CollateralEntries(s) == { i \in DOMAIN s : s[i].is_collateral }

MaxCollateralValue(s) ==
    CHOOSE v \in { DepositValue(s[i]) : i \in CollateralEntries(s) } :
        \A i \in CollateralEntries(s) : DepositValue(s[i]) <= v

\* C5: for a snapshot with at least one is_collateral market, the seize market
\* chosen is flagged is_collateral and is the first such market whose deposit
\* valuation is the largest among the is_collateral markets.
C5_SeizeIsBestCollateral ==
    pc = "liquidate" /\ CollateralEntries(exactly) # {} =>
        \E i \in CollateralEntries(exactly) :
            /\ exactly[i].market = seize_market
            /\ DepositValue(exactly[i]) = MaxCollateralValue(exactly)
            /\ \A j \in CollateralEntries(exactly) :
                   j < i => DepositValue(exactly[j]) < MaxCollateralValue(exactly)

\* C6: the first N calls of update_price of a changer built with N steps
\* succeed when the feed accepts the push, and the call N+1 ends the run with an
\* out-of-range failure before any price is pushed.
C6_ExhaustedAfterNSteps ==
    [][ pc = "price" =>
            LET N == PathLen(trajectory[mi]) - 1 IN
            /\ index[mi] <= N + 1
            /\ index[mi] <= N =>
                   /\ error' # "OutOfRange"
                   /\ ledger_op'.op = "set_price"
                   /\ ledger_op'.ok =>
                          /\ index'[mi] = index[mi] + 1
                          /\ feed'[mi] = float_to_wad(trajectory[mi][index[mi]])
                          /\ error' = "none"
                          /\ pc' # "Stopped"
            /\ index[mi] = N + 1 =>
                   /\ error' = "OutOfRange"
                   /\ pc' = "Stopped"
                   /\ UNCHANGED <<feed, index, ledger_op>> ]_vars

\* The second market, built with one step, has been advanced once and its
\* second advance has failed, in the second tick of a two-step first market.
C6_Witness ==
    /\ error = "OutOfRange"
    /\ pc = "Stopped"
    /\ mi = 2
    /\ tick = 2
    /\ PathLen(trajectory[2]) = 2
    /\ index[2] = 2

\* C7: the run is fail-stop: a failed ledger operation or a panic puts main in
\* Stopped in the same step, and no step is taken from Stopped.
C7_FailStop ==
    [][ /\ ~ledger_op'.ok => pc' = "Stopped" /\ error' = "LedgerCallFailure"
        /\ error' # "none" => pc' = "Stopped"
        /\ pc = "Stopped" => UNCHANGED vars ]_vars

\* The liquidation of the first account failed in the first tick of a run
\* with two ticks to make, and the run has stopped there.
C7_Witness ==
    /\ pc = "Stopped"
    /\ error = "LedgerCallFailure"
    /\ ledger_op.op = "liquidate"
    /\ ai = 1
    /\ tick = 1
    /\ PathLen(trajectory[1]) = 3

\* C8: every liquidate call is made on the repay market selected from the
\* snapshot just read for the account, names that account and the seize market
\* selected from the same snapshot, and carries the largest U256 as amount.
C8_LiquidateArguments ==
    [][ /\ pc = "liquidate" /\ pc' # pc =>
               /\ ledger_op'.op = "liquidate"
               /\ ledger_op'.market = repay_market_of(exactly)
               /\ ledger_op'.seize = seize_market_of(exactly)
               /\ ledger_op'.account = accounts[ai]
               /\ ledger_op'.amount = Pow(2, U256_BITS) - 1
        /\ ledger_op'.op = "liquidate" /\ ledger_op' # ledger_op => pc = "liquidate" ]_vars

\* A liquidation of the second account was submitted and accepted, repaying
\* one market and seizing another.
C8_Witness ==
    /\ ledger_op.op = "liquidate"
    /\ ledger_op.ok
    /\ ledger_op.account = accounts[2]
    /\ ledger_op.market # ledger_op.seize
    /\ ledger_op.amount = U256_MAX

\* The length of the longest trajectory.
LongestPath ==
    CHOOSE n \in { PathLen(trajectory[m]) : m \in Markets } :
        \A m \in Markets : PathLen(trajectory[m]) <= n

C11_NoOverlap ==
    [][ /\ in_flight' <= 1
        /\ in_flight' > in_flight => in_flight = 0
        /\ ai' # ai => ai' = ai + 1 \/ ai' = 1
        /\ pc = "liquidity" /\ in_flight' < in_flight =>
               /\ ledger_op'.op = "account_liquidity"
               /\ ledger_op'.account = accounts[ai]
        /\ pc = "liquidity" /\ in_flight' > in_flight /\ ai > 1 =>
               /\ ledger_op.account = accounts[ai - 1]
               /\ ledger_op.op \in {"account_liquidity", "liquidate"}
               /\ ledger_op.op = "account_liquidity" =>
                      ledger_op.ret[1] >= ledger_op.ret[2]
               /\ ledger_op.ok ]_vars

\* The query of the second account is in flight, submitted after the
\* liquidation of the first account has been committed.
C11_Witness ==
    /\ pc = "liquidity"
    /\ ai = 2
    /\ in_flight = 1
    /\ ledger_op.op = "liquidate"
    /\ ledger_op.account = accounts[1]
    /\ ledger_op.ok

\* C12: in a tick the markets are advanced one after the other in the order
\* 1..NumMarkets, the same in every tick: while the price phase is at market
\* mi the markets before mi have been advanced exactly once in this tick and
\* the others not yet; when the scan runs every market has been advanced
\* exactly once; and the advance of a market is submitted only when no other
\* operation is pending.
C12_MarketsInOrderOncePerTick ==
    /\ [](pc = "price" =>
            /\ mi \in Markets
            /\ \A m \in Markets : index[m] = IF m < mi THEN tick + 1 ELSE tick)
    /\ [](pc \in ScanPcs => \A m \in Markets : index[m] = tick + 1)
    /\ [][ /\ pc = "loop" /\ pc' = "price" => mi' = 1
           /\ pc = "price" /\ in_flight' > in_flight => in_flight = 0
           /\ pc = "price" /\ in_flight' < in_flight =>
                  /\ ledger_op'.op = "set_price"
                  /\ ledger_op'.market = mi
                  /\ ledger_op'.ok =>
                         /\ index' = [index EXCEPT ![mi] = index[mi] + 1]
                         /\ \/ mi < NumMarkets /\ mi' = mi + 1 /\ pc' = "price"
                            \/ mi = NumMarkets /\ pc' = "liquidity" ]_vars

\* In the second tick the advance of the last market is in flight, the
\* advances of the markets before it completed.
C12_Witness ==
    /\ pc = "price"
    /\ tick = 2
    /\ mi = NumMarkets
    /\ in_flight = 1
    /\ \A m \in Markets : m < mi => ledger_op.op = "set_price" /\ index[m] = 3

\* C13: the scan has no memory: no account is queried or submitted twice in a
\* tick, and when the scan of a tick completes every account has been queried
\* exactly once and has received exactly one liquidate submission when the
\* ledger reported it with collateral < debt in this tick, and none otherwise,
\* whether or not it was submitted in the tick before.
C13_ScanHasNoMemory ==
    /\ [](\A a \in 1..NumAccounts :
            history.queried[a] <= 1 /\ history.submitted[a] <= 1)
    /\ [][ (pc \in ScanPcs /\ pc' = "loop") =>
             (\A a \in 1..NumAccounts :
                 /\ history'.queried[a] = 1
                 /\ history'.submitted[a] = IF a \in history'.insolvent THEN 1 ELSE 0)
         ]_vars

\* The scan of the second tick has completed, and it submitted again the
\* liquidation of an account that was submitted in the first tick.
C13_Witness ==
    /\ pc = "loop"
    /\ tick = 2
    /\ \E a \in history.previous : history.submitted[a] = 1 /\ a \in history.insolvent
    /\ \A a \in 1..NumAccounts : history.queried[a] = 1

C15_TrajectoryShape ==
    \A m \in Markets :
        Built(m) =>
            /\ params[m].n_steps >= 1
            /\ DOMAIN trajectory[m] = 0..params[m].n_steps
            /\ PathLen(trajectory[m]) = params[m].n_steps + 1
            /\ trajectory[m][0] = initial_price

\* Every market is built, with the largest number of steps.
C15_Witness ==
    /\ pc = "loop"
    /\ \A m \in Markets :
          /\ Built(m)
          /\ params[m].n_steps = MaxSteps
          /\ PathLen(trajectory[m]) = MaxSteps + 1

NoCollateral(s) == \A i \in DOMAIN s : ~s[i].is_collateral

\* C17: on a non-empty snapshot with no entry flagged is_collateral the
\* selection of the seize market raises no error and returns the market of the
\* first entry, whatever the deposits; the scan then holds that market as
\* seize market and submits the liquidation with it.
C17_SeizeFallsBackToFirst ==
    /\ [](pc = "positions" =>
            \A s \in Snapshots :
                (s # <<>> /\ NoCollateral(s)) =>
                    ~SeizeOverflows(s) /\ seize_market_of(s) = s[1].market)
    /\ [](pc = "liquidate" /\ NoCollateral(exactly) => seize_market = exactly[1].market)
    /\ [][ (pc = "liquidate" /\ NoCollateral(exactly)) =>
              /\ ledger_op'.op = "liquidate"
              /\ ledger_op'.account = accounts[ai]
              /\ ledger_op'.seize = exactly[1].market ]_vars

\* The selection has run on a snapshot without collateral whose second entry
\* has the larger deposit, and the liquidation is about to be submitted with
\* the first market as seize market.
C17_Witness ==
    /\ pc = "liquidate"
    /\ Len(exactly) >= 2
    /\ NoCollateral(exactly)
    /\ DepositValue(exactly[2]) > DepositValue(exactly[1])
    /\ seize_market = exactly[1].market

\* C18: the cursor of a price changer is 1 before its first update, never
\* below 1 and never beyond the length of its trajectory; it changes only by
\* an accepted set_price of its market, by exactly 1, and that set_price
\* pushed the sample at the old cursor; a rejected push leaves it unchanged;
\* the push of tick k is the k-th of the market and pushes sample k >= 1.
C18_CursorAdvancesByOne ==
    /\ [](tick = 0 => \A m \in Markets : index[m] = 1)
    /\ [](\A m \in Markets : index[m] >= 1 /\ index[m] <= PathLen(trajectory[m]))
    /\ [][ /\ index' # index =>
                 /\ pc = "price"
                 /\ index' = [index EXCEPT ![mi] = index[mi] + 1]
                 /\ ledger_op'.op = "set_price"
                 /\ ledger_op'.market = mi
                 /\ ledger_op'.ok
                 /\ ledger_op'.amount = float_to_wad(trajectory[mi][index[mi]])
                 /\ feed'[mi] = ledger_op'.amount
           /\ (pc = "price" /\ error' # "OutOfRange") =>
                 /\ ledger_op'.op = "set_price"
                 /\ index[mi] = tick
                 /\ tick >= 1
                 /\ ledger_op'.amount = float_to_wad(trajectory[mi][tick])
                 /\ ledger_op'.ok => index'[mi] = index[mi] + 1
                 /\ ~ledger_op'.ok => index' = index /\ feed' = feed ]_vars

\* The second push of the last market has been accepted: it pushed sample 2
\* and the cursor is 3.
C18_Witness ==
    /\ pc = "liquidity"
    /\ ai = 1
    /\ tick = 2
    /\ ledger_op.op = "set_price"
    /\ ledger_op.market = NumMarkets
    /\ ledger_op.amount = float_to_wad(trajectory[NumMarkets][2])
    /\ index[NumMarkets] = 3

\* C19: when every awaited call returns, the run reaches Stopped; with
\* trajectories of N + 1 samples it never performs more than N ticks and
\* never runs out of samples; between ticks every market has been advanced
\* once per tick performed; and a run that stops without an error has
\* performed exactly N ticks.
C19_Terminates ==
    /\ <>(pc = "Stopped")
    /\ [](tick <= params[1].n_steps)
    /\ [](error # "OutOfRange")
    /\ [](pc \in {"loop", "stop"} => \A m \in Markets : index[m] = tick + 1)
    /\ []((pc = "Stopped" /\ error = "none") =>
            /\ tick = params[1].n_steps
            /\ \A m \in Markets : index[m] = params[m].n_steps + 1)

\* A run of MaxSteps ticks has stopped without an error.
C19_Witness ==
    /\ pc = "Stopped"
    /\ error = "none"
    /\ tick = MaxSteps
    /\ params[1].n_steps = MaxSteps

====
